---- MODULE Spec2Model ----
(***************************************************************************)
(* Model of the after-you poem generator.                                  *)
(*                                                                         *)
(*   src/src/poem_writer.py : find_matching_pos_word, generate_poem,       *)
(*                            extract_anchor_word_positions,               *)
(*                            pos_tag_poem, format_output_poem             *)
(*   src/src/table_maker.py : make_table, construct_poem_interactive,      *)
(*                            extract_anchor_word_positions_non_spacy      *)
(*                                                                         *)
(* Python lists are 0-based; sequences here are 1-based, so the element    *)
(* at Python index i of a list l is l[i + 1].  All index variables keep    *)
(* their Python (0-based) values.                                          *)
(***************************************************************************)
EXTENDS Integers, Sequences, FiniteSets, TLC

\* ------------------------------------------------------------------------
\* Bounds of the model
\* ------------------------------------------------------------------------
MaxCorpus == 3
MaxLines == 2
MaxLineWords == 2
MaxText == 4
MaxK == 2
MaxRows == 3
MaxRowLen == 3
MaxChoice == 3
MaxReads == 4

\* ------------------------------------------------------------------------
\* Data
\* ------------------------------------------------------------------------
\* The literal returned by find_matching_pos_word when a lap finds nothing.
NotFound == "<WORD-NOT-FOUND>"

\* Value of a Python local that has not been assigned yet.
Unbound == -1

Tok(w, t) == [text |-> w, pos_ |-> t]

\* Tokens the external tagger may produce for a corpus.
CorpusTokens ==
  { Tok("you", "PRON"), Tok("You", "PRON"), Tok("cat", "NOUN"), Tok("run", "VERB") }

\* Tags a search may ask for ("ADJ" is carried by no corpus token).
TargetTags == { "PRON", "NOUN", "VERB", "ADJ" }

AnchorWords == { "you", "YOU", "Cat" }

\* Whitespace-delimited words of a template poem, each with the tokens the
\* external tagger yields for it.
PoemChunks ==
  { << Tok("me", "PRON") >>,
    << Tok("friend", "NOUN"), Tok(",", "PUNCT") >> }

\* All sequences over S of length lo..hi.
SeqsOf(S, lo, hi) == UNION { [1..n -> S] : n \in lo..hi }

\* str.lower()
Lower(w) ==
  CASE w = "You" -> "you"
    [] w = "YOU" -> "you"
    [] w = "Cat" -> "cat"
    [] w = "N"   -> "n"
    [] w = "X"   -> "x"
    [] OTHER     -> w

RECURSIVE Flatten(_)
Flatten(ss) == IF ss = << >> THEN << >> ELSE Head(ss) \o Flatten(Tail(ss))

\* ------------------------------------------------------------------------
\* poem_writer.py : pure functions
\* ------------------------------------------------------------------------

\* [(token.text, token.pos_) for token in doc if token.pos_ not in [...]]
pos_tag_poem(doc) ==
  SelectSeq(doc, LAMBDA tk : tk.pos_ \notin { "PUNCT", "SPACE", "EOL" })

\* [i for i, token in enumerate(doc) if token.text.lower() == anchor_word.lower()]
RECURSIVE PositionsFrom(_, _, _)
PositionsFrom(doc, i, anchor_word) ==
  IF i >= Len(doc) THEN << >>
  ELSE (IF Lower(doc[i + 1].text) = Lower(anchor_word) THEN << i >> ELSE << >>)
         \o PositionsFrom(doc, i + 1, anchor_word)

extract_anchor_word_positions(doc, anchor_word) == PositionsFrom(doc, 0, anchor_word)

\* The for loop of find_matching_pos_word: i runs over range(i, stop); i_mod
\* is the local of the same name (Unbound until the first iteration) and
\* visited lists the positions looked at so far.
RECURSIVE ScanLoop(_, _, _, _, _, _)
ScanLoop(corpus_words, i, stop, target_pos_tag, i_mod, visited) ==
  IF i >= stop
    THEN [word |-> NotFound, idx |-> i_mod, visited |-> visited]
    ELSE LET total_words == Len(corpus_words)
             m == i % total_words
         IN IF corpus_words[m + 1].pos_ = target_pos_tag
              THEN [word |-> corpus_words[m + 1].text, idx |-> m,
                    visited |-> Append(visited, m)]
              ELSE ScanLoop(corpus_words, i + 1, stop, target_pos_tag, m,
                            Append(visited, m))

\* A variant whose scan starts at the anchor itself: range(p, N + p).
find_matching_pos_word_from_anchor(corpus_words, current_pos, target_pos_tag) ==
  ScanLoop(corpus_words, current_pos, Len(corpus_words) + current_pos,
           target_pos_tag, Unbound, << >>)

\* A variant that stops one position short of a full lap: range(p + 1, N + p).
find_matching_pos_word_short_lap(corpus_words, current_pos, target_pos_tag) ==
  ScanLoop(corpus_words, current_pos + 1, Len(corpus_words) + current_pos,
           target_pos_tag, Unbound, << >>)

find_matching_pos_word(corpus_words, current_pos, target_pos_tag) ==
  ScanLoop(corpus_words, current_pos + 1, Len(corpus_words) + current_pos + 1,
           target_pos_tag, Unbound, << >>)

\* word_sequence[word_index : word_index + words_in_line]
Slice(s, from, to) ==
  LET lo == IF from < Len(s) THEN from ELSE Len(s)
      hi == IF to < Len(s) THEN to ELSE Len(s)
  IN [j \in 1..(IF hi > lo THEN hi - lo ELSE 0) |-> s[lo + j]]

RECURSIVE FormatFrom(_, _, _)
FormatFrom(word_sequence, poem_structure, word_index) ==
  IF poem_structure = << >> THEN << >>
  ELSE << Slice(word_sequence, word_index, word_index + Head(poem_structure)) >>
         \o FormatFrom(word_sequence, Tail(poem_structure),
                       word_index + Head(poem_structure))

\* The poem as a list of lines, each the list of words joined by ' '.
format_output_poem(word_sequence, poem_structure) ==
  FormatFrom(word_sequence, poem_structure, 0)

\* ------------------------------------------------------------------------
\* State
\* ------------------------------------------------------------------------
VARIABLES
  \* find_matching_pos_word called on its own
  current_pos,                    \* parameter current_pos
  target_pos_tag,                 \* parameter target_pos_tag
  result,                         \* the returned (word, index), or NoResult
  m_pc,                           \* "idle" | "call" | "ret"
  \* generate_poem
  corpus_words,                   \* tagged corpus, also the matcher's parameter
  tagged_poem,                    \* pos_tag_poem(input_poem)
  poem_structure,                 \* words per line of input_poem
  anchor_word_positions,
  word_sequence,
  current_anchor_position_index,
  matching_word,                  \* locals assigned at line 80
  new_position,
  tok_i,                          \* index of the template token the loop is at
  g_pc,                           \* "idle" | "loop" | "returned" | "failed"
  g_error,                        \* exception that ended generate_poem, or "none"
  formatted_poem,                 \* the return value (list of lines)
  \* make_table
  words,                          \* input_text.split()
  index_list,
  words_per_row,
  table_data,                     \* rows built by make_table / rows loaded from the CSV
  idx_i,                          \* index of the index_list entry the loop is at
  t_pc,                           \* "idle" | "loop" | "written"
  output_table,                   \* rows of output_table.csv, or NoFile
  \* construct_poem_interactive
  row_i,                          \* index of the row the for loop is at
  poem,
  current_line,
  end_poem,
  inputs_read,                    \* number of input() calls that have returned
  accepted,                       \* the inputs that left the while loop, in order
  c_pc,                           \* "idle" | "for" | "prompt" | "done"
  output_poem                     \* lines of output_poem.txt, or NoFile

m_vars == << current_pos, target_pos_tag, result, m_pc >>
g_vars == << tagged_poem, poem_structure, anchor_word_positions, word_sequence,
             current_anchor_position_index, matching_word, new_position, tok_i,
             g_pc, g_error, formatted_poem >>
t_vars == << words, index_list, words_per_row, idx_i, t_pc, output_table >>
c_vars == << row_i, poem, current_line, end_poem, inputs_read, accepted, c_pc,
             output_poem >>
vars == << m_vars, corpus_words, g_vars, t_vars, table_data, c_vars >>

NoResult == [word |-> "", idx |-> Unbound, visited |-> << >>]
NoFile == << "<no file>" >>

\* Parts of the program that a run does not exercise.
MatcherIdle ==
  /\ current_pos = 0 /\ target_pos_tag = "" /\ result = NoResult /\ m_pc = "idle"
GenerateIdle ==
  /\ tagged_poem = << >> /\ poem_structure = << >>
  /\ anchor_word_positions = << >> /\ word_sequence = << >>
  /\ current_anchor_position_index = 0
  /\ matching_word = "" /\ new_position = Unbound /\ tok_i = 0
  /\ g_pc = "idle" /\ g_error = "none" /\ formatted_poem = << >>
TableIdle ==
  /\ words = << >> /\ index_list = << >> /\ words_per_row = 0
  /\ idx_i = 0 /\ t_pc = "idle" /\ output_table = NoFile
ConstructIdle ==
  /\ row_i = 0 /\ poem = << >> /\ current_line = << >> /\ end_poem = FALSE
  /\ inputs_read = 0 /\ accepted = << >> /\ c_pc = "idle" /\ output_poem = NoFile

\* ------------------------------------------------------------------------
\* find_matching_pos_word on every corpus, start index and tag
\* ------------------------------------------------------------------------
InitMatcher ==
  /\ corpus_words \in SeqsOf(CorpusTokens, 1, MaxCorpus)
  /\ current_pos \in 0..(Len(corpus_words) - 1)
  /\ target_pos_tag \in TargetTags
  /\ result = NoResult
  /\ m_pc = "call"
  /\ GenerateIdle /\ TableIdle /\ ConstructIdle /\ table_data = << >>

CallMatcher ==
  /\ m_pc = "call"
  /\ result' = find_matching_pos_word(corpus_words, current_pos, target_pos_tag)
  /\ m_pc' = "ret"
  /\ UNCHANGED << current_pos, target_pos_tag, corpus_words, g_vars, t_vars,
                  table_data, c_vars >>


\* ------------------------------------------------------------------------
\* generate_poem
\* ------------------------------------------------------------------------
\* Steps 1-4: both texts tagged, anchor positions extracted, cursor at 0.
InitGenerate ==
  /\ corpus_words \in SeqsOf(CorpusTokens, 1, MaxCorpus)
  /\ \E input_poem \in SeqsOf(SeqsOf(PoemChunks, 0, MaxLineWords), 0, MaxLines) :
       /\ tagged_poem = pos_tag_poem(Flatten(Flatten(input_poem)))
       /\ poem_structure = [l \in 1..Len(input_poem) |-> Len(input_poem[l])]
  /\ \E anchor_word \in AnchorWords :
       anchor_word_positions = extract_anchor_word_positions(corpus_words, anchor_word)
  /\ word_sequence = << >>
  /\ current_anchor_position_index = 0
  /\ matching_word = "" /\ new_position = Unbound
  /\ tok_i = 0
  /\ g_pc = "loop" /\ g_error = "none" /\ formatted_poem = << >>
  /\ MatcherIdle /\ TableIdle /\ ConstructIdle /\ table_data = << >>

\* The cursor advance of line 90, without the wrap-around.
NextCursorNoWrap(index, length) == IF index + 1 < length THEN index + 1 ELSE index

\* (current_anchor_position_index + 1) % len(anchor_word_positions)
NextCursor(index, length) == (index + 1) % length

\* The start position handed to the matcher, taken from the previous match.
SearchStartChained(positions, index, previous) ==
  IF previous = Unbound THEN positions[index + 1] ELSE previous

\* anchor_word_positions[current_anchor_position_index]
SearchStart(positions, index, previous) == positions[index + 1]

\* A loop body that passes over a template token when there is no anchor
\* position to start from.
LoopBodySkipsWithoutAnchor ==
  /\ g_pc = "loop"
  /\ tok_i < Len(tagged_poem)
  /\ IF current_anchor_position_index >= Len(anchor_word_positions)
       THEN /\ tok_i' = tok_i + 1
            /\ UNCHANGED << word_sequence, current_anchor_position_index,
                            matching_word, new_position, g_pc, g_error >>
       ELSE LET current_anchor_position ==
                  anchor_word_positions[current_anchor_position_index + 1]
                r == find_matching_pos_word(corpus_words, current_anchor_position,
                                            tagged_poem[tok_i + 1].pos_)
            IN /\ matching_word' = r.word
               /\ new_position' = r.idx
               /\ word_sequence' = Append(word_sequence, r.word)
               /\ current_anchor_position_index' =
                    (current_anchor_position_index + 1) % Len(anchor_word_positions)
               /\ tok_i' = tok_i + 1
               /\ UNCHANGED << g_pc, g_error >>
  /\ UNCHANGED << m_vars, corpus_words, tagged_poem, poem_structure,
                  anchor_word_positions, formatted_poem, t_vars, table_data,
                  c_vars >>

\* One iteration of the for loop over tagged_poem (lines 75-90).
\* Indexing the empty position list at line 77 raises IndexError.
LoopBody ==
  /\ g_pc = "loop"
  /\ tok_i < Len(tagged_poem)
  /\ IF current_anchor_position_index >= Len(anchor_word_positions)
       THEN /\ g_pc' = "failed"
            /\ g_error' = "IndexError"
            /\ UNCHANGED << word_sequence, current_anchor_position_index,
                            matching_word, new_position, tok_i >>
       ELSE LET current_anchor_position ==
                  SearchStart(anchor_word_positions,
                              current_anchor_position_index, new_position)
                r == find_matching_pos_word(corpus_words, current_anchor_position,
                                            tagged_poem[tok_i + 1].pos_)
            IN /\ matching_word' = r.word
               /\ new_position' = r.idx
               /\ word_sequence' = Append(word_sequence, r.word)
               /\ current_anchor_position_index' =
                    NextCursor(current_anchor_position_index,
                               Len(anchor_word_positions))
               /\ tok_i' = tok_i + 1
               /\ UNCHANGED << g_pc, g_error >>
  /\ UNCHANGED << m_vars, corpus_words, tagged_poem, poem_structure,
                  anchor_word_positions, formatted_poem, t_vars, table_data,
                  c_vars >>

\* Lines 93-96: the loop is exhausted, the poem is formatted and returned.
ReturnPoem ==
  /\ g_pc = "loop"
  /\ tok_i >= Len(tagged_poem)
  /\ formatted_poem' = format_output_poem(word_sequence, poem_structure)
  /\ g_pc' = "returned"
  /\ UNCHANGED << m_vars, corpus_words, tagged_poem, poem_structure,
                  anchor_word_positions, word_sequence,
                  current_anchor_position_index, matching_word, new_position,
                  tok_i, g_error, t_vars, table_data, c_vars >>

\* poem_writer.py: the matcher called directly, or through generate_poem.
InitPoemWriter == InitMatcher \/ InitGenerate

NextPoemWriter == CallMatcher \/ LoopBody \/ ReturnPoem

SpecPoemWriter == InitPoemWriter /\ [][NextPoemWriter]_vars

\* ------------------------------------------------------------------------
\* table_maker.py : make_table
\* ------------------------------------------------------------------------
TextWords == { "you", "You", "a", "b" }

\* [i for i, token in enumerate(input_words) if token.lower() == anchor_word.lower()]
RECURSIVE WordPositionsFrom(_, _, _)
WordPositionsFrom(input_words, i, anchor_word) ==
  IF i >= Len(input_words) THEN << >>
  ELSE (IF Lower(input_words[i + 1]) = Lower(anchor_word) THEN << i >> ELSE << >>)
         \o WordPositionsFrom(input_words, i + 1, anchor_word)

extract_anchor_word_positions_non_spacy(input_words, anchor_word) ==
  WordPositionsFrom(input_words, 0, anchor_word)

\* if index + words_per_row <= len(words)
EnoughWords(index, k, n) == index + k <= n

\* row = words[index:index + words_per_row + 1]
TableRow(ws, index, k) == Slice(ws, index, index + k + 1)

\* The text is split and the anchor positions found (lines 77-80, 96).
InitTable ==
  /\ words \in SeqsOf(TextWords, 0, MaxText)
  /\ index_list = extract_anchor_word_positions_non_spacy(words, "you")
  /\ words_per_row \in 0..MaxK
  /\ table_data = << >>
  /\ idx_i = 0
  /\ t_pc = "loop"
  /\ output_table = NoFile
  /\ MatcherIdle /\ GenerateIdle /\ ConstructIdle /\ corpus_words = << >>

\* One iteration of the loop over index_list (lines 83-88).
TableLoopBody ==
  /\ t_pc = "loop"
  /\ idx_i < Len(index_list)
  /\ LET index == index_list[idx_i + 1]
     IN table_data' =
          IF EnoughWords(index, words_per_row, Len(words))
            THEN Append(table_data, TableRow(words, index, words_per_row))
            ELSE table_data
  /\ idx_i' = idx_i + 1
  /\ UNCHANGED << m_vars, corpus_words, g_vars, words, index_list, words_per_row,
                  t_pc, output_table, c_vars >>

\* writer.writerows(table_data) (lines 91-93).
WriteTable ==
  /\ t_pc = "loop"
  /\ idx_i >= Len(index_list)
  /\ output_table' = table_data
  /\ t_pc' = "written"
  /\ UNCHANGED << m_vars, corpus_words, g_vars, words, index_list, words_per_row,
                  table_data, idx_i, c_vars >>

NextTable == TableLoopBody \/ WriteTable

SpecTable == InitTable /\ [][NextTable]_vars

\* ------------------------------------------------------------------------
\* table_maker.py : construct_poem_interactive
\* ------------------------------------------------------------------------
\* Words of the option table: the anchor in column 0, a different word in
\* every other cell.
OptionPool ==
  << "a", "b", "c", "d", "e", "f", "g", "h", "i", "j", "k", "l", "m",
     "n", "o", "p", "q", "r", "s", "t", "u", "v", "w", "x", "y", "z" >>

CellWord(r, c) == IF c = 0 THEN "you" ELSE OptionPool[r * MaxRowLen + c]

\* Tables of at most MaxRows rows, each of 0..MaxRowLen cells.
Tables ==
  UNION { { [r \in 1..n |-> [c \in 1..lens[r] |-> CellWord(r - 1, c - 1)]] :
              lens \in [1..n -> 0..MaxRowLen] } : n \in 0..MaxRows }

\* A line typed by the operator is a sequence of characters.
DigitChars == << "0", "1", "2", "3", "4", "5", "6", "7", "8", "9" >>

DigitValue(ch) == CHOOSE d \in 0..9 : DigitChars[d + 1] = ch

IsDigit(ch) == \E d \in 0..9 : DigitChars[d + 1] = ch

RECURSIVE NatToStr(_)
NatToStr(n) ==
  IF n < 10 THEN << DigitChars[n + 1] >>
  ELSE Append(NatToStr(n \div 10), DigitChars[(n % 10) + 1])

\* str(c)
IntToStr(c) == IF c < 0 THEN << "-" >> \o NatToStr(0 - c) ELSE NatToStr(c)

Inputs ==
  { << "n" >>, << "x" >>, << "X" >>, << "q" >> }
    \cup { IntToStr(c) : c \in (0 - 1)..MaxChoice }

\* user_choice.lower()
LowerStr(s) == [j \in 1..Len(s) |-> Lower(s[j])]

\* Whether int(user_choice) succeeds: an optional sign, then digits.
Unsigned(s) == IF s # << >> /\ s[1] \in { "-", "+" } THEN Tail(s) ELSE s

IsInt(s) == Unsigned(s) # << >> /\ \A j \in 1..Len(Unsigned(s)) : IsDigit(Unsigned(s)[j])

RECURSIVE DigitsToNat(_)
DigitsToNat(s) ==
  IF s = << >> THEN 0
  ELSE 10 * DigitsToNat(SubSeq(s, 1, Len(s) - 1)) + DigitValue(s[Len(s)])

\* int(user_choice)
int(s) == IF s[1] = "-" THEN 0 - DigitsToNat(Unsigned(s)) ELSE DigitsToNat(Unsigned(s))

\* user_choice.lower() in ["n", "x"]
IsSignal(user_choice) == LowerStr(user_choice) \in { << "n" >>, << "x" >> }

\* An end test that forgets lower().
EndsPoemCaseSensitive(user_choice) == user_choice = << "x" >>

\* user_choice.lower() == "x"
EndsPoem(user_choice) == LowerStr(user_choice) = << "x" >>

\* if 0 <= choice_idx < len(row)
ValidChoice(choice_idx, row) == 0 <= choice_idx /\ choice_idx < Len(row)

\* A flush that drops an empty line.
FlushSkipEmpty(lines, line) == IF line = << >> THEN lines ELSE Append(lines, line)

\* poem.append(' '.join(current_line)); a line is kept as its list of words.
Flush(lines, line) == Append(lines, line)

\* The table has been loaded from the CSV (line 102); lines 26-28.
InitConstruct ==
  /\ table_data \in Tables
  /\ row_i = 0
  /\ poem = << >>
  /\ current_line = << >>
  /\ end_poem = FALSE
  /\ inputs_read = 0
  /\ accepted = << >>
  /\ c_pc = "for"
  /\ output_poem = NoFile
  /\ MatcherIdle /\ GenerateIdle /\ TableIdle /\ corpus_words = << >>

others_c == << m_vars, corpus_words, g_vars, t_vars, table_data >>

\* Lines 30-36: the for loop takes the next row and shows its options.
PresentRow ==
  /\ c_pc = "for"
  /\ row_i < Len(table_data)
  /\ ~end_poem
  /\ c_pc' = "prompt"
  /\ UNCHANGED << others_c, row_i, poem, current_line, end_poem, inputs_read,
                  accepted, output_poem >>

\* A signal that starts a new line without leaving the row's prompt unless it
\* ends the poem.
AcceptSignalKeepsRow ==
  /\ c_pc = "prompt"
  /\ inputs_read < MaxReads
  /\ \E user_choice \in Inputs :
       /\ IsSignal(user_choice)
       /\ poem' = Flush(poem, current_line)
       /\ current_line' = << >>
       /\ end_poem' = (IF EndsPoem(user_choice) THEN TRUE ELSE end_poem)
       /\ accepted' = Append(accepted, [row |-> row_i, input |-> user_choice])
       /\ row_i' = (IF EndsPoem(user_choice) THEN row_i + 1 ELSE row_i)
       /\ c_pc' = (IF EndsPoem(user_choice) THEN "for" ELSE "prompt")
  /\ inputs_read' = inputs_read + 1
  /\ UNCHANGED << others_c, output_poem >>

\* Lines 40-47: 'n' or 'x' flushes the line and leaves the while loop.
AcceptSignal ==
  /\ c_pc = "prompt"
  /\ inputs_read < MaxReads
  /\ \E user_choice \in Inputs :
       /\ IsSignal(user_choice)
       /\ poem' = Flush(poem, current_line)
       /\ current_line' = << >>
       /\ end_poem' = (IF EndsPoem(user_choice) THEN TRUE ELSE end_poem)
       /\ accepted' = Append(accepted, [row |-> row_i, input |-> user_choice])
  /\ inputs_read' = inputs_read + 1
  /\ row_i' = row_i + 1
  /\ c_pc' = "for"
  /\ UNCHANGED << others_c, output_poem >>

\* Lines 48-52: a number within the row's bounds appends row[choice_idx].
AcceptChoice ==
  /\ c_pc = "prompt"
  /\ inputs_read < MaxReads
  /\ \E user_choice \in Inputs :
       /\ ~IsSignal(user_choice)
       /\ IsInt(user_choice)
       /\ LET row == table_data[row_i + 1]
              choice_idx == int(user_choice)
          IN /\ ValidChoice(choice_idx, row)
             /\ current_line' = Append(current_line, row[choice_idx + 1])
       /\ accepted' = Append(accepted, [row |-> row_i, input |-> user_choice])
  /\ inputs_read' = inputs_read + 1
  /\ row_i' = row_i + 1
  /\ c_pc' = "for"
  /\ UNCHANGED << others_c, poem, end_poem, output_poem >>

\* Lines 53-56: an out-of-range number or a non-number prompts again.
RejectInput ==
  /\ c_pc = "prompt"
  /\ inputs_read < MaxReads
  /\ \E user_choice \in Inputs :
       /\ ~IsSignal(user_choice)
       /\ \/ ~IsInt(user_choice)
          \/ /\ IsInt(user_choice)
             /\ ~ValidChoice(int(user_choice), table_data[row_i + 1])
  /\ inputs_read' = inputs_read + 1
  /\ UNCHANGED << others_c, row_i, poem, current_line, end_poem, accepted, c_pc,
                  output_poem >>

\* Lines 31, 58-64: the loop is over (rows exhausted or end_poem); the last
\* line is appended and the poem written to output_poem.txt.
Finish ==
  /\ c_pc = "for"
  /\ (row_i >= Len(table_data) \/ end_poem)
  /\ poem' = Flush(poem, current_line)
  /\ output_poem' = poem'
  /\ c_pc' = "done"
  /\ UNCHANGED << others_c, row_i, current_line, end_poem, inputs_read, accepted >>

NextConstruct ==
  PresentRow \/ AcceptSignal \/ AcceptChoice \/ RejectInput \/ Finish

SpecConstruct == InitConstruct /\ [][NextConstruct]_vars

\* The program runs on whenever it is not waiting for the operator.
SpecConstructFair ==
  SpecConstruct /\ WF_vars(PresentRow) /\ WF_vars(Finish)

\* ========================================================================
\* Properties of poem_writer.py (checked under SpecPoemWriter)
\* ========================================================================
\* Positions of the corpus whose token carries tag T.
Carriers(cw, T) == { q \in 0..(Len(cw) - 1) : cw[q + 1].pos_ = T }

\* Ring distance of the nearest carrier of T forward of p, in 1..N.
NearestDistance(cw, p, T) ==
  CHOOSE d \in 1..Len(cw) :
    /\ ((p + d) % Len(cw)) \in Carriers(cw, T)
    /\ \A e \in 1..(d - 1) : ((p + e) % Len(cw)) \notin Carriers(cw, T)

MatcherReturned == m_pc = "ret"

\* C1: when some token of the corpus carries the target tag, the matcher
\* returns the token at (p + d) mod N for the smallest d in 1..N whose token
\* carries the tag: the index is that position, the word is that token's
\* surface form, and the token's tag is the target tag.
C1_NearestForwardMatch ==
  (MatcherReturned /\ Carriers(corpus_words, target_pos_tag) # {}) =>
    LET N == Len(corpus_words)
        d == NearestDistance(corpus_words, current_pos, target_pos_tag)
    IN /\ result.idx = (current_pos + d) % N
       /\ result.word = corpus_words[result.idx + 1].text
       /\ corpus_words[result.idx + 1].pos_ = target_pos_tag
       /\ Len(result.visited) = d

\* C1 witness: a match found after wrapping past the end of the corpus,
\* with a non-matching token skipped on the way.
C1_Witness ==
  /\ MatcherReturned
  /\ Carriers(corpus_words, target_pos_tag) # {}
  /\ result.idx < current_pos
  /\ Len(result.visited) >= 2
  /\ result.word # NotFound

\* C2 as stated: whenever the matcher returns a match, the returned index
\* differs from the start index.
C2_NeverAnchor ==
  (MatcherReturned /\ result.word # NotFound) => result.idx # current_pos

\* C2 amended: a returned match is the start token itself exactly when the
\* start token is the only token of the corpus carrying the tag (the lap
\* then visits all N positions and ends on the start index); whenever another
\* token carries the tag the returned index differs from the start index.
C2_AnchorOnlyWhenSoleCarrier ==
  (MatcherReturned /\ result.word # NotFound) =>
    /\ (result.idx = current_pos)
         <=> (Carriers(corpus_words, target_pos_tag) = { current_pos })
    /\ (result.idx = current_pos) => Len(result.visited) = Len(corpus_words)

\* C2 witness: the start token carries the tag, so does another token, and
\* the other token is returned.
C2_Witness ==
  /\ MatcherReturned
  /\ current_pos \in Carriers(corpus_words, target_pos_tag)
  /\ Cardinality(Carriers(corpus_words, target_pos_tag)) >= 2
  /\ result.word # NotFound
  /\ result.idx # current_pos

GenerateRunning == g_pc \in { "loop", "returned", "failed" }

\* C3: when no token carries the target tag the matcher visits exactly N
\* positions and returns the sentinel; generate_poem puts the sentinel at the
\* place of every template token whose tag the corpus lacks, keeps going, and
\* returns a word sequence with one entry per template token.
C3_SentinelAfterFullLap ==
  /\ (MatcherReturned /\ Carriers(corpus_words, target_pos_tag) = {}) =>
       /\ result.word = NotFound
       /\ Len(result.visited) = Len(corpus_words)
       /\ \A q \in 0..(Len(corpus_words) - 1) :
            Cardinality({ j \in 1..Len(result.visited) : result.visited[j] = q }) = 1
       /\ \A j \in 1..Len(corpus_words) : result.word # corpus_words[j].text
  /\ (GenerateRunning /\ anchor_word_positions # << >>) =>
       /\ g_pc # "failed"
       /\ Len(word_sequence) = tok_i
       /\ \A j \in 1..Len(word_sequence) :
            (Carriers(corpus_words, tagged_poem[j].pos_) = {})
              <=> (word_sequence[j] = NotFound)
       /\ (g_pc = "returned") => Len(word_sequence) = Len(tagged_poem)

\* C3 witness: a returned poem whose word sequence holds the sentinel followed
\* by a corpus word.
C3_Witness ==
  /\ g_pc = "returned"
  /\ \E j \in 1..(Len(word_sequence) - 1) :
       /\ word_sequence[j] = NotFound
       /\ word_sequence[j + 1] # NotFound

\* The matcher's contract, stated without the scan loop: the word at the
\* nearest carrier forward of p, or the sentinel.
ExpectedWord(cw, p, T) ==
  IF Carriers(cw, T) = {} THEN NotFound
  ELSE cw[((p + NearestDistance(cw, p, T)) % Len(cw)) + 1].text

\* C4: with K >= 1 anchor positions, the i-th template token is searched from
\* anchor_positions[i mod K] whatever earlier matches returned; output word i
\* is the matcher's result for that start and the token's tag, and the
\* returned word sequence has exactly M entries.
C4_RoundRobinCursor ==
  (GenerateRunning /\ anchor_word_positions # << >>) =>
    LET K == Len(anchor_word_positions)
    IN /\ Len(word_sequence) = tok_i
       /\ current_anchor_position_index = tok_i % K
       /\ \A i \in 0..(Len(word_sequence) - 1) :
            word_sequence[i + 1] =
              ExpectedWord(corpus_words, anchor_word_positions[(i % K) + 1],
                           tagged_poem[i + 1].pos_)
       /\ (g_pc = "returned") => Len(word_sequence) = Len(tagged_poem)

\* C4 witness: more template tokens than anchor positions, two anchor
\* positions, so the cursor has wrapped, and the words found from the two
\* anchors differ.
C4_Witness ==
  /\ g_pc = "returned"
  /\ Len(anchor_word_positions) = 2
  /\ Len(word_sequence) >= 3
  /\ current_anchor_position_index = Len(word_sequence) % 2
  /\ \E i \in 1..(Len(word_sequence) - 1) :
       /\ tagged_poem[i].pos_ = tagged_poem[i + 1].pos_
       /\ word_sequence[i] # word_sequence[i + 1]

\* C5 as stated: with an empty anchor position list generate_poem never
\* returns a poem, whatever the template, and the failure that ends it is a
\* division by zero raised before any template token is processed.
C5_EmptyAnchorDivisionByZero ==
  (GenerateRunning /\ anchor_word_positions = << >>) =>
    /\ g_pc # "returned"
    /\ word_sequence = << >>
    /\ (g_pc = "failed") => g_error = "ZeroDivisionError"

\* C5 amended: with an empty anchor position list and at least one template
\* token, generate_poem fails at the first token, before any word is matched,
\* with an IndexError from the anchor position lookup (the modulo is never
\* reached) and returns no poem; with no template token the loop body never
\* runs and a poem without words is returned.
C5_EmptyAnchorInv ==
  (GenerateRunning /\ anchor_word_positions = << >>) =>
    /\ word_sequence = << >> /\ tok_i = 0
    /\ matching_word = "" /\ new_position = Unbound
    /\ (tagged_poem # << >>) =>
         /\ g_pc \in { "loop", "failed" }
         /\ formatted_poem = << >>
         /\ (g_pc = "failed") <=> (g_error = "IndexError")
    /\ (tagged_poem = << >>) =>
         /\ g_pc \in { "loop", "returned" }
         /\ g_error = "none"
         /\ \A l \in 1..Len(formatted_poem) : formatted_poem[l] = << >>

C5_EmptyAnchorStep ==
  (g_pc = "loop" /\ anchor_word_positions = << >>) =>
    IF tagged_poem # << >>
      THEN g_pc' = "failed" /\ g_error' = "IndexError"
      ELSE g_pc' = "returned" /\ g_error' = "none"

C5_EmptyAnchorIndexError == [][C5_EmptyAnchorStep]_vars /\ []C5_EmptyAnchorInv

\* C5 witness: generate_poem has failed on the first template token with an
\* empty anchor position list.
C5_Witness ==
  /\ g_pc = "failed"
  /\ g_error = "IndexError"
  /\ anchor_word_positions = << >>
  /\ tagged_poem # << >>
  /\ tok_i = 0

\* ========================================================================
\* Properties of table_maker.py
\* ========================================================================
\* C6 as stated (checked under SpecTable): every row make_table emits has
\* exactly words_per_row + 1 entries, the anchor word followed by the next
\* words_per_row words; a position with fewer words after it yields no row.
C6_RowsFullWidth ==
  (t_pc \in { "loop", "written" }) =>
    \A r \in 1..Len(table_data) : Len(table_data[r]) = words_per_row + 1

\* The remaining properties are checked under SpecConstruct.
Last(s) == s[Len(s)]

SignalCount == Cardinality({ j \in 1..Len(accepted) : IsSignal(accepted[j].input) })

RECURSIVE WordCount(_)
WordCount(lines) ==
  IF lines = << >> THEN 0 ELSE Len(Head(lines)) + WordCount(Tail(lines))

\* The scripted operator of the scenario: "1", "n", "2", "x".
Script == << << "1" >>, << "n" >>, << "2" >>, << "x" >> >>

\* Every input read so far was accepted and is the script's next input.
ScriptedRun ==
  /\ inputs_read = Len(accepted)
  /\ Len(accepted) <= Len(Script)
  /\ \A j \in 1..Len(accepted) : accepted[j].input = Script[j]

ScenarioTable ==
  /\ Len(table_data) = 2
  /\ Len(table_data[1]) >= 2
  /\ Len(table_data[2]) >= 3

\* C7 as stated: over a two-row table the scripted inputs "1", "n", "2", "x"
\* are all consumed and the written poem has exactly two lines, the word
\* chosen with "1" from the first row and the word chosen with "2" from the
\* second row.
C7_ScriptFullyConsumed ==
  (c_pc = "done" /\ ScenarioTable /\ ScriptedRun) =>
    /\ inputs_read = Len(Script)
    /\ output_poem = << << table_data[1][2] >>, << table_data[2][3] >> >>

NewLineStep ==
  /\ Len(accepted') = Len(accepted) + 1
  /\ LowerStr(Last(accepted').input) = << "n" >>

\* C7 amended: a 'new line' signal flushes and resets the line buffer and,
\* like every accepted input, uses up the row it was typed at; over a two-row
\* table the script "1", "n", "2", "x" therefore has only "1" and "n"
\* consumed, and the written poem has exactly two lines, the word chosen with
\* "1" from the first row and an empty line.
C7_NewLineInv ==
  (c_pc = "done" /\ ScenarioTable /\ ScriptedRun) =>
    /\ inputs_read = 2
    /\ accepted = << [row |-> 0, input |-> Script[1]],
                     [row |-> 1, input |-> Script[2]] >>
    /\ output_poem = << << table_data[1][2] >>, << >> >>

C7_NewLineStep ==
  NewLineStep =>
    /\ poem' = Append(poem, current_line)
    /\ current_line' = << >>
    /\ row_i' = row_i + 1
    /\ c_pc' = "for"
    /\ end_poem' = end_poem

C7_NewLineUsesRow == [][C7_NewLineStep]_vars /\ []C7_NewLineInv

\* C7 witness: the scripted run over a two-row table has ended after "1" and
\* "n", with the poem written.
C7_Witness ==
  /\ c_pc = "done"
  /\ ScenarioTable
  /\ ScriptedRun
  /\ inputs_read = 2
  /\ output_poem = << << table_data[1][2] >>, << >> >>

\* C8 as stated: a numeric input accepted at a row is one of the option
\* numbers shown for the row, 1 .. len(row) - 1, so that 0 is rejected and
\* the row's anchor word row[0] is never appended.
C8_OnlyDisplayedOptions ==
  \A j \in 1..Len(accepted) :
    (~IsSignal(accepted[j].input)) =>
      int(accepted[j].input) \in 1..(Len(table_data[accepted[j].row + 1]) - 1)

EndAccepted == \E j \in 1..Len(accepted) : LowerStr(accepted[j].input) = << "x" >>

\* C9: once an 'x' is accepted the line buffer is flushed into the poem, no
\* later row is presented, no further input is read, and the poem is written
\* out, at whichever row 'x' is typed and however many rows remain.
C9_EndInv ==
  EndAccepted =>
    /\ LowerStr(Last(accepted).input) = << "x" >>
    /\ end_poem
    /\ current_line = << >>
    /\ c_pc \in { "for", "done" }
    /\ (c_pc = "done") => (output_poem = poem /\ output_poem # NoFile)

C9_EndStep ==
  /\ (~EndAccepted /\ EndAccepted') =>
       (poem' = Append(poem, current_line) /\ current_line' = << >>)
  /\ EndAccepted =>
       /\ inputs_read' = inputs_read
       /\ accepted' = accepted
       /\ row_i' = row_i
       /\ c_pc' = "done"
       /\ output_poem' = poem'

C9_EndStopsLoop ==
  /\ [][C9_EndStep]_vars
  /\ []C9_EndInv
  /\ (EndAccepted ~> (c_pc = "done"))

\* C9 witness: the poem has been written after an 'x' typed while rows
\* remained, and a word chosen before the 'x' is in the poem.
C9_Witness ==
  /\ c_pc = "done"
  /\ EndAccepted
  /\ row_i < Len(table_data)
  /\ output_poem = poem
  /\ WordCount(poem) >= 1

\* C10: every row the loop presents consumes exactly one accepted input (the
\* j-th accepted input is the one typed at row j - 1, and all rows are used
\* unless an 'x' ended the loop); the poem has one line per accepted 'n'/'x'
\* plus the line flushed after the loop; a poem whose last accepted input is
\* 'n' or 'x' ends with an empty line; and the poem holds at most one word per
\* table row.
C10_OneInputPerRow ==
  (c_pc \in { "for", "prompt", "done" }) =>
    /\ Len(accepted) = row_i
    /\ row_i <= Len(table_data)
    /\ \A j \in 1..Len(accepted) : accepted[j].row = j - 1
    /\ (c_pc = "prompt") => row_i < Len(table_data)
    /\ (c_pc # "done") =>
         /\ Len(poem) = SignalCount
         /\ WordCount(poem) + Len(current_line) = Len(accepted) - SignalCount
    /\ (c_pc = "done") =>
         /\ Len(accepted) = Len(table_data) \/ EndAccepted
         /\ Len(output_poem) = SignalCount + 1
         /\ WordCount(output_poem) = Len(accepted) - SignalCount
         /\ WordCount(output_poem) <= Len(table_data)
         /\ (accepted # << >> /\ IsSignal(Last(accepted).input)) =>
              Last(output_poem) = << >>

\* C10 witness: a poem written after every row took one input, the last of
\* them a signal, so that it ends with an empty line after a line of words.
C10_Witness ==
  /\ c_pc = "done"
  /\ Len(accepted) = Len(table_data)
  /\ Len(table_data) >= 2
  /\ IsSignal(Last(accepted).input)
  /\ Len(output_poem) = SignalCount + 1
  /\ Last(output_poem) = << >>
  /\ WordCount(output_poem) >= 1

====
